---- MODULE Spec2Model ----
(***************************************************************************)
(* Model of scripts/binance_testnet_bot.py: the Position bookkeeping, the  *)
(* MarketMaker quote computation and the BinanceTestnetBot trading loop.   *)
(*                                                                         *)
(* Numbers.  The program computes with Python floats.  The model computes  *)
(* with exact rationals: a quantity is an integer number of lots (one lot  *)
(* = 10^-qty_decimals of the base asset, so formatting a quantity with     *)
(* qty_decimals digits is exact), a fill price is an integer, and an       *)
(* average price or a PnL is a fraction [n, d] in lowest terms with d > 0. *)
(* Binary rounding error of the float operations is not modelled.          *)
(***************************************************************************)
EXTENDS Integers, Sequences, FiniteSets, TLC

\* ------------------------------------------------------------------ bounds
MaxFills == 3        \* fills applied to a Position in SpecPosition
MaxQty == 2          \* largest fill quantity (lots)
Prices == {90, 100, 110}
Sides == {"BUY", "SELL"}
Qtys == 1..MaxQty
QuoteSize == 1       \* config.quote_size (lots)
MaxPosition == 2     \* config.max_position (lots); 0 is also explored
MaxOpenOrders == 2   \* open orders the exchange accepts for the symbol
MaxTrades == 1       \* trades the exchange has recorded for the account
MidPrices == {50001}
MaxInventory == 12   \* calculate_quotes is called with inventories -12..12
QuoteMids == {-100, 0, 100, 50000}
QuoteSpreads == {0, 10, 10000, 30000}
QuoteSizes == {0, 1, 3}
QuoteMaxPositions == {0, 1, 10}
QuoteSkews == {[n |-> 0, d |-> 1], [n |-> 1, d |-> 2], [n |-> 1, d |-> 1]}

\* --------------------------------------------------- program constants
SpreadBps == 10
PriceDecimals == 2
TradesLimit == 10
RecentTrades == 5
SkewFactor == [n |-> 1, d |-> 2]
None == 0            \* Python None for an order identifier (ids are >= 1)

\* ------------------------------------------------------- exact fractions
Abs(x) == IF x < 0 THEN -x ELSE x

Min(a, b) == IF a <= b THEN a ELSE b

Max(a, b) == IF a >= b THEN a ELSE b

RECURSIVE GCD(_, _)
GCD(a, b) == IF b = 0 THEN a ELSE GCD(b, a % b)

\* n/d in lowest terms, d > 0 (d # 0 required)
Frac(n, d) ==
    LET g == GCD(Abs(n), Abs(d))
        s == IF d < 0 THEN -1 ELSE 1
    IN  [n |-> (s * n) \div g, d |-> (s * d) \div g]

FInt(k) == [n |-> k, d |-> 1]

\* sums and products cancel common factors first, to keep the integers small
FAdd(x, y) ==
    LET g == GCD(x.d, y.d)
    IN  Frac(x.n * (y.d \div g) + y.n * (x.d \div g), (x.d \div g) * y.d)

FNeg(x) == [n |-> -x.n, d |-> x.d]

FSub(x, y) == FAdd(x, FNeg(y))

FMul(x, y) ==
    LET a == Frac(x.n, y.d)
        b == Frac(y.n, x.d)
    IN  Frac(a.n * b.n, a.d * b.d)

FDivInt(x, k) == Frac(x.n, x.d * k)

\* ------------------------------------------------------------- Position
\* Position(): quantity 0.0, avg_price 0.0, realized_pnl 0.0, total_trades 0
NewPosition ==
    [quantity |-> 0, avg_price |-> FInt(0), realized_pnl |-> FInt(0),
     total_trades |-> 0]

\* mutant: the average price is the fill price, not the weighted average
AddLong_Unweighted(pos, qty, price) ==
    LET q == pos.quantity + qty
    IN  [pos EXCEPT !.quantity = q,
                    !.avg_price = IF q > 0 THEN FInt(price) ELSE FInt(0)]

\* BUY at quantity >= 0: adding to long
AddLong(pos, qty, price) ==
    LET total_cost == FAdd(FMul(FInt(pos.quantity), pos.avg_price),
                           FInt(qty * price))
        q == pos.quantity + qty
    IN  [pos EXCEPT !.quantity = q,
                    !.avg_price = IF q > 0 THEN FDivInt(total_cost, q)
                                  ELSE FInt(0)]

\* mutant: the quantity moves by the covered amount only (never flips)
CoverShort_Clamped(pos, qty, price) ==
    LET cover == Min(qty, -pos.quantity)
        q == pos.quantity + cover
    IN  [pos EXCEPT !.realized_pnl =
                        FAdd(@, FMul(FInt(cover), FSub(pos.avg_price, FInt(price)))),
                    !.quantity = q,
                    !.avg_price = IF q > 0 THEN FInt(price) ELSE @]

\* mutant: every cover resets the average price to the fill price
CoverShort_ResetsAvg(pos, qty, price) ==
    LET cover == Min(qty, -pos.quantity)
        q == pos.quantity + qty
    IN  [pos EXCEPT !.realized_pnl =
                        FAdd(@, FMul(FInt(cover), FSub(pos.avg_price, FInt(price)))),
                    !.quantity = q,
                    !.avg_price = FInt(price)]

\* BUY at quantity < 0: covering short
CoverShort(pos, qty, price) ==
    LET cover == Min(qty, -pos.quantity)
        q == pos.quantity + qty
    IN  [pos EXCEPT !.realized_pnl =
                        FAdd(@, FMul(FInt(cover), FSub(pos.avg_price, FInt(price)))),
                    !.quantity = q,
                    !.avg_price = IF q > 0 THEN FInt(price) ELSE @]

\* mutant: adding to a short books the fill against the average price
AddShort_Realizes(pos, qty, price) ==
    LET total_cost == FAdd(FMul(FInt(Abs(pos.quantity)), pos.avg_price),
                           FInt(qty * price))
        q == pos.quantity - qty
    IN  [pos EXCEPT !.realized_pnl =
                        FAdd(@, FMul(FInt(qty), FSub(FInt(price), pos.avg_price))),
                    !.quantity = q,
                    !.avg_price = IF q # 0 THEN FDivInt(total_cost, Abs(q))
                                  ELSE FInt(0)]

\* mutant: the existing notional is weighted by the signed quantity
AddShort_SignedCost(pos, qty, price) ==
    LET total_cost == FAdd(FMul(FInt(pos.quantity), pos.avg_price),
                           FInt(qty * price))
        q == pos.quantity - qty
    IN  [pos EXCEPT !.quantity = q,
                    !.avg_price = IF q # 0 THEN FDivInt(total_cost, Abs(q))
                                  ELSE FInt(0)]

\* SELL at quantity <= 0: adding to short
AddShort(pos, qty, price) ==
    LET total_cost == FAdd(FMul(FInt(Abs(pos.quantity)), pos.avg_price),
                           FInt(qty * price))
        q == pos.quantity - qty
    IN  [pos EXCEPT !.quantity = q,
                    !.avg_price = IF q # 0 THEN FDivInt(total_cost, Abs(q))
                                  ELSE FInt(0)]

\* mutant: the whole fill quantity is booked, not min(qty, quantity)
CloseLong_NoMin(pos, qty, price) ==
    LET q == pos.quantity - qty
    IN  [pos EXCEPT !.realized_pnl =
                        FAdd(@, FMul(FInt(qty), FSub(FInt(price), pos.avg_price))),
                    !.quantity = q,
                    !.avg_price = IF q < 0 THEN FInt(price) ELSE @]

\* mutant: the closed quantity is booked with the sign of a short
CloseLong_SignFlipped(pos, qty, price) ==
    LET close == Min(qty, pos.quantity)
        q == pos.quantity - qty
    IN  [pos EXCEPT !.realized_pnl =
                        FAdd(@, FMul(FInt(close), FSub(pos.avg_price, FInt(price)))),
                    !.quantity = q,
                    !.avg_price = IF q < 0 THEN FInt(price) ELSE @]

\* SELL at quantity > 0: closing long
CloseLong(pos, qty, price) ==
    LET close == Min(qty, pos.quantity)
        q == pos.quantity - qty
    IN  [pos EXCEPT !.realized_pnl =
                        FAdd(@, FMul(FInt(close), FSub(FInt(price), pos.avg_price))),
                    !.quantity = q,
                    !.avg_price = IF q < 0 THEN FInt(price) ELSE @]

\* Position.on_fill
on_fill(pos, side, qty, price) ==
    LET p == [pos EXCEPT !.total_trades = @ + 1]
    IN  IF side = "BUY"
        THEN IF p.quantity >= 0 THEN AddLong(p, qty, price)
                                ELSE CoverShort(p, qty, price)
        ELSE IF p.quantity <= 0 THEN AddShort(p, qty, price)
                                ELSE CloseLong(p, qty, price)

\* mutant: a short is marked like a long
unrealized_pnl_AbsQuantity(pos, current_price) ==
    IF pos.quantity = 0 THEN FInt(0)
    ELSE FMul(FInt(Abs(pos.quantity)), FSub(FInt(current_price), pos.avg_price))

\* Position.unrealized_pnl
unrealized_pnl(pos, current_price) ==
    IF pos.quantity = 0 THEN FInt(0)
    ELSE FMul(FInt(pos.quantity), FSub(FInt(current_price), pos.avg_price))

\* Position.total_pnl
total_pnl(pos, current_price) ==
    FAdd(pos.realized_pnl, unrealized_pnl(pos, current_price))

\* ----------------------------------------------------------- MarketMaker
\* StrategyConfig as given to the constructor
Config(max_position) ==
    [spread_bps |-> SpreadBps, quote_size |-> QuoteSize,
     max_position |-> max_position, skew_factor |-> SkewFactor,
     price_decimals |-> PriceDecimals]

\* mutant: the whole spread is applied on each side (spread_bps not halved)
calculate_quotes_FullSpread(cfg, mid_price, pos) ==
    LET half_spread == FDivInt(FMul(FInt(mid_price), FInt(cfg.spread_bps)), 10000)
        position_ratio == IF cfg.max_position > 0
                          THEN Frac(pos, cfg.max_position) ELSE FInt(0)
        skew == FMul(FMul(half_spread, position_ratio), cfg.skew_factor)
        room_to_buy == cfg.max_position - pos
        room_to_sell == cfg.max_position + pos
    IN  [bid_price |-> FSub(FSub(FInt(mid_price), half_spread), skew),
         ask_price |-> FSub(FAdd(FInt(mid_price), half_spread), skew),
         bid_size |-> Min(cfg.quote_size, Max(0, room_to_buy)),
         ask_size |-> Min(cfg.quote_size, Max(0, room_to_sell))]

\* mutant: room_to_sell is computed like room_to_buy
calculate_quotes_RoomCopied(cfg, mid_price, pos) ==
    LET half_spread == FDivInt(FMul(FInt(mid_price), Frac(cfg.spread_bps, 2)), 10000)
        position_ratio == IF cfg.max_position > 0
                          THEN Frac(pos, cfg.max_position) ELSE FInt(0)
        skew == FMul(FMul(half_spread, position_ratio), cfg.skew_factor)
        room_to_buy == cfg.max_position - pos
        room_to_sell == cfg.max_position - pos
    IN  [bid_price |-> FSub(FSub(FInt(mid_price), half_spread), skew),
         ask_price |-> FSub(FAdd(FInt(mid_price), half_spread), skew),
         bid_size |-> Min(cfg.quote_size, Max(0, room_to_buy)),
         ask_size |-> Min(cfg.quote_size, Max(0, room_to_sell))]

\* mutant: the skew widens the ask instead of shifting it
calculate_quotes_SkewWidens(cfg, mid_price, pos) ==
    LET half_spread == FDivInt(FMul(FInt(mid_price), Frac(cfg.spread_bps, 2)), 10000)
        position_ratio == IF cfg.max_position > 0
                          THEN Frac(pos, cfg.max_position) ELSE FInt(0)
        skew == FMul(FMul(half_spread, position_ratio), cfg.skew_factor)
        room_to_buy == cfg.max_position - pos
        room_to_sell == cfg.max_position + pos
    IN  [bid_price |-> FSub(FSub(FInt(mid_price), half_spread), skew),
         ask_price |-> FAdd(FAdd(FInt(mid_price), half_spread), skew),
         bid_size |-> Min(cfg.quote_size, Max(0, room_to_buy)),
         ask_size |-> Min(cfg.quote_size, Max(0, room_to_sell))]

\* mutant: the skew leaves out skew_factor
calculate_quotes_NoSkewFactor(cfg, mid_price, pos) ==
    LET half_spread == FDivInt(FMul(FInt(mid_price), Frac(cfg.spread_bps, 2)), 10000)
        position_ratio == IF cfg.max_position > 0
                          THEN Frac(pos, cfg.max_position) ELSE FInt(0)
        skew == FMul(half_spread, position_ratio)
        room_to_buy == cfg.max_position - pos
        room_to_sell == cfg.max_position + pos
    IN  [bid_price |-> FSub(FSub(FInt(mid_price), half_spread), skew),
         ask_price |-> FSub(FAdd(FInt(mid_price), half_spread), skew),
         bid_size |-> Min(cfg.quote_size, Max(0, room_to_buy)),
         ask_size |-> Min(cfg.quote_size, Max(0, room_to_sell))]

\* mutant: both sides always quote quote_size
calculate_quotes_SizeUnlimited(cfg, mid_price, pos) ==
    LET half_spread == FDivInt(FMul(FInt(mid_price), Frac(cfg.spread_bps, 2)), 10000)
        position_ratio == IF cfg.max_position > 0
                          THEN Frac(pos, cfg.max_position) ELSE FInt(0)
        skew == FMul(FMul(half_spread, position_ratio), cfg.skew_factor)
    IN  [bid_price |-> FSub(FSub(FInt(mid_price), half_spread), skew),
         ask_price |-> FSub(FAdd(FInt(mid_price), half_spread), skew),
         bid_size |-> cfg.quote_size,
         ask_size |-> cfg.quote_size]

\* MarketMaker.calculate_quotes
calculate_quotes(cfg, mid_price, pos) ==
    LET half_spread == FDivInt(FMul(FInt(mid_price), Frac(cfg.spread_bps, 2)), 10000)
        position_ratio == IF cfg.max_position > 0
                          THEN Frac(pos, cfg.max_position) ELSE FInt(0)
        skew == FMul(FMul(half_spread, position_ratio), cfg.skew_factor)
        room_to_buy == cfg.max_position - pos
        room_to_sell == cfg.max_position + pos
    IN  [bid_price |-> FSub(FSub(FInt(mid_price), half_spread), skew),
         ask_price |-> FSub(FAdd(FInt(mid_price), half_spread), skew),
         bid_size |-> Min(cfg.quote_size, Max(0, room_to_buy)),
         ask_size |-> Min(cfg.quote_size, Max(0, room_to_sell))]

\* calculate_quotes has no raise statement and no check of mid_price, and its
\* one division is guarded by max_position > 0: no call of it raises
calculate_quotes_raises(cfg, mid_price, pos) == FALSE

NoQuote ==
    [bid_price |-> FInt(0), ask_price |-> FInt(0), bid_size |-> 0, ask_size |-> 0]

RECURSIVE Pow10(_)
Pow10(k) == IF k = 0 THEN 1 ELSE 10 * Pow10(k - 1)

\* f"{x:.{decimals}f}": x rounded to `decimals` places, ties to even, as the
\* integer number of 10^-decimals units
FormatFixed(x, decimals) ==
    LET whole == x.n \div x.d
        frac == (x.n % x.d) * Pow10(decimals)
        q == whole * Pow10(decimals) + (frac \div x.d)
        r == frac % x.d
    IN  IF 2 * r > x.d THEN q + 1
        ELSE IF 2 * r = x.d THEN q + (q % 2)
        ELSE q

\* ------------------------------------------------------ BinanceTestnetBot
\* Outcome of one exchange call: "ok", a BinanceAPIException ("api", and on
\* cancel also "api_2011", code -2011), or any other exception ("other").
CallOutcomes == {"ok", "api", "other"}

CancelOutcomes == {"ok", "api_2011", "api", "other"}

IsApiError(out) == out \in {"api", "api_2011"}

\* cancel_all_orders: the identifiers after the call and whether the call's
\* exception leaves the method (only BinanceAPIException is handled)
cancel_all_orders(out, bid_id, ask_id) ==
    [bid |-> IF out = "ok" THEN None ELSE bid_id,
     ask |-> IF out = "ok" THEN None ELSE ask_id,
     raised |-> ~(out = "ok" \/ IsApiError(out))]

\* place_order: the returned identifier and whether an exception leaves it
place_order(out, order_id) ==
    [order_id |-> IF out = "ok" THEN order_id ELSE None,
     raised |-> ~(out = "ok" \/ IsApiError(out))]

\* mutant: a zero size is placed too
ShouldPlace_ZeroToo(size) == size >= 0

\* update_quotes: `if bid_size > 0`, `if ask_size > 0`
ShouldPlace(size) == size > 0

\* mutant: update_quotes handles BinanceAPIException only
UpdateQuotesCatches_ApiOnly(out) == IsApiError(out)

\* update_quotes: `except Exception`
UpdateQuotesCatches(out) == out # "ok"

\* check_fills: `except BinanceAPIException`
CheckFillsCatches(out) == IsApiError(out)

\* check_fills: the loop over trades[-5:]; the on_fill call is commented out
check_fills(pos, recent) == pos

\* mutant: the cancel-all sits in the KeyboardInterrupt handler, not in finally
FinallyCancels_NotOnException(reason) == reason = "stopped"

\* run: `finally: self.cancel_all_orders()`
FinallyCancels(reason) == TRUE

\* trades[-5:] of get_my_trades(limit=10)
LastN(seq, k) == SubSeq(seq, Max(1, Len(seq) - k + 1), Len(seq))

RecentOf(all_trades) == LastN(LastN(all_trades, TradesLimit), RecentTrades)


\* ----------------------------------------------------------------- state
VARIABLES
    position,      \* bot.position, the Position object
    fills,         \* history: the fills applied by on_fill, in order
    prev,          \* history: the Position as it was before the last fill
    filled,        \* history: the sides of the current quote that were filled
    config,        \* bot.config (the MarketMaker's config)
    qcall,         \* the last direct call of calculate_quotes: its arguments
    pc,            \* where run() stands
    running,       \* bot.running
    bid_order_id,  \* bot.bid_order_id (None or an identifier)
    ask_order_id,  \* bot.ask_order_id
    mid_price,     \* update_quotes: mid_price of the cycle
    quote,         \* update_quotes: the tuple calculate_quotes returned
    openOrders,    \* exchange: the open orders of the symbol
    trades,        \* exchange: the account's trades, oldest first
    lastCall,      \* history: the last exchange call issued
    exitReason,    \* history: why the loop was left
    stopRequested, \* history: stop() has been called
    cyc            \* history: what the current cycle has done so far

posvars == <<position, fills, prev, filled>>

botvars == <<config, qcall, pc, running, bid_order_id, ask_order_id, mid_price, quote,
             openOrders, trades, lastCall, exitReason, stopRequested, cyc>>

vars == <<position, fills, prev, filled, config, qcall, pc, running, bid_order_id,
          ask_order_id, mid_price, quote, openOrders, trades, lastCall,
          exitReason, stopRequested, cyc>>

Fill(side, qty, price) == [side |-> side, qty |-> qty, price |-> price]

LastFill == fills[Len(fills)]

SignedQty(f) == IF f.side = "BUY" THEN f.qty ELSE -f.qty

\* the record of a cycle that has called nothing yet; total_trades is the
\* position's fill count when the cycle begins; stopPending is whether
\* stop() had cleared the running flag when the cycle's first call was made
NewCycle(total_trades) ==
    [midCalls |-> 0, midOk |-> FALSE, cancelCalls |-> 0, placeCalls |-> 0,
     uqFailed |-> FALSE, bid |-> "none", ask |-> "none",
     statusLogged |-> FALSE, fillsFetched |-> FALSE, processed |-> 0,
     startTrades |-> total_trades, stopPending |-> FALSE]

\* no direct call of calculate_quotes yet
NoCall == [called |-> FALSE, mid |-> 0, inv |-> 0, raised |-> FALSE]

\* BinanceTestnetBot.__init__: the fields other than config, with no exchange
\* activity yet
BotFields ==
    /\ qcall = NoCall
    /\ pc = "init"
    /\ running = FALSE
    /\ bid_order_id = None
    /\ ask_order_id = None
    /\ mid_price = 0
    /\ quote = NoQuote
    /\ openOrders = {}
    /\ trades = <<>>
    /\ lastCall = "none"
    /\ exitReason = "none"
    /\ stopRequested = FALSE
    /\ cyc = NewCycle(0)

BotInit ==
    /\ config \in {Config(0), Config(MaxPosition)}
    /\ BotFields

PosInit ==
    /\ position = NewPosition
    /\ fills = <<>>
    /\ prev = NewPosition
    /\ filled = {}

Init == PosInit /\ BotInit

\* a caller applies one valid fill: position.on_fill(side, qty, price)
OnFill(maxn, fs) ==
    \E f \in fs :
        /\ Len(fills) < maxn
        /\ position' = on_fill(position, f.side, f.qty, f.price)
        /\ fills' = Append(fills, f)
        /\ prev' = position
        /\ UNCHANGED <<filled, botvars>>

ValidFills == {Fill(side, qty, price) : side \in Sides, qty \in Qtys, price \in Prices}

ApplyFill == OnFill(MaxFills, ValidFills)

\* bot.position is a public field: the owner of a bot may apply a fill to it
\* before run().  One fill is explored, taking the inventory to the position
\* limit on either side or part of the way; run() itself never calls on_fill.
PreRunFills ==
    {Fill("BUY", MaxPosition, 100), Fill("SELL", MaxPosition, 100),
     Fill("BUY", 1, 100)}

PreRunFill == pc = "init" /\ OnFill(1, PreRunFills)

\* ---- exchange
OrderIds == {o.id : o \in openOrders}

UsedIds == OrderIds \cup {bid_order_id, ask_order_id}

\* the exchange hands out an identifier no order of the bot carries
NewOrderId == CHOOSE i \in 1..(MaxOpenOrders + 3) :
                 /\ i \notin UsedIds
                 /\ \A j \in 1..(MaxOpenOrders + 3) : j \notin UsedIds => i <= j

\* an open order is filled by the market and becomes a trade
ExchangeFill ==
    /\ Len(trades) < MaxTrades
    /\ \E o \in openOrders :
         /\ openOrders' = openOrders \ {o}
         /\ trades' = Append(trades, [isBuyer |-> o.side = "BUY",
                                      qty |-> o.qty, price |-> o.price])
    /\ UNCHANGED <<posvars, config, qcall, pc, running, bid_order_id, ask_order_id,
                   mid_price, quote, lastCall, exitReason, stopRequested, cyc>>

\* ---- run()
\* run: self.running = True
Run ==
    /\ pc = "init"
    /\ running' = TRUE
    /\ pc' = "balances"
    /\ UNCHANGED <<posvars, config, qcall, bid_order_id, ask_order_id, mid_price,
                   quote, openOrders, trades, lastCall, exitReason,
                   stopRequested, cyc>>

\* run: get_account_balance(), outside the try block
GetAccountBalance ==
    /\ pc = "balances"
    /\ lastCall' = "get_account"
    /\ \E out \in CallOutcomes :
         IF out = "ok"
         THEN pc' = "loop" /\ UNCHANGED exitReason
         ELSE pc' = "done" /\ exitReason' = "startup"
    /\ UNCHANGED <<posvars, config, qcall, running, bid_order_id, ask_order_id,
                   mid_price, quote, openOrders, trades, stopRequested, cyc>>

\* run: `while self.running`
LoopTest ==
    /\ pc = "loop"
    /\ IF running
       THEN /\ pc' = "mid"
            /\ cyc' = NewCycle(position.total_trades)
            /\ UNCHANGED exitReason
       ELSE /\ pc' = "finally"
            /\ exitReason' = "stopped"
            /\ UNCHANGED cyc
    /\ UNCHANGED <<posvars, config, qcall, running, bid_order_id, ask_order_id,
                   mid_price, quote, openOrders, trades, lastCall,
                   stopRequested>>

\* mutant: a caught exception is logged and the refresh carries on with the
\* cancel-all
AfterUpdateQuotesRaise_CarriesOn(out) ==
    IF UpdateQuotesCatches(out) THEN "cancel" ELSE "finally"

\* where control goes when an exception is raised inside update_quotes' try
AfterUpdateQuotesRaise(out) ==
    IF UpdateQuotesCatches(out) THEN "fills" ELSE "finally"

RaiseInUpdateQuotes(out) ==
    /\ pc' = AfterUpdateQuotesRaise(out)
    /\ exitReason' = IF UpdateQuotesCatches(out) THEN exitReason
                      ELSE "update_quotes raised"

\* update_quotes: get_mid_price() and calculate_quotes(); the ticker call
\* either raises or returns a price
GetMidPrice ==
    /\ pc = "mid"
    /\ lastCall' = "get_orderbook_ticker"
    /\ \/ \E out \in CallOutcomes \ {"ok"} :
              /\ cyc' = [cyc EXCEPT !.midCalls = @ + 1, !.uqFailed = TRUE,
                                    !.stopPending = ~running]
              /\ RaiseInUpdateQuotes(out)
              /\ UNCHANGED <<mid_price, quote>>
       \/ \E m \in MidPrices :
              /\ mid_price' = m
              /\ quote' = calculate_quotes(config, m, position.quantity)
              /\ cyc' = [cyc EXCEPT !.midCalls = @ + 1, !.midOk = TRUE,
                                    !.stopPending = ~running]
              /\ pc' = "cancel"
              /\ UNCHANGED exitReason
    /\ UNCHANGED <<posvars, config, qcall, running, bid_order_id, ask_order_id,
                   openOrders, trades, stopRequested>>

\* the exchange's side of cancel_all_open_orders: "no open orders" (-2011) is
\* reported only when there are none; a call that fails otherwise may or may
\* not have been carried out
ExchangeCancel(out, carried_out) ==
    /\ out = "api_2011" => openOrders = {}
    /\ out \in {"ok", "api_2011", "api"} => carried_out = (out = "ok")
    /\ openOrders' = IF carried_out THEN {} ELSE openOrders

\* update_quotes: self.cancel_all_orders()
CancelAll ==
    /\ pc = "cancel"
    /\ lastCall' = "cancel_all_open_orders"
    /\ \E out \in CancelOutcomes, carried_out \in BOOLEAN :
         LET r == cancel_all_orders(out, bid_order_id, ask_order_id)
         IN  /\ ExchangeCancel(out, carried_out)
             /\ bid_order_id' = r.bid
             /\ ask_order_id' = r.ask
             /\ IF r.raised
                THEN /\ cyc' = [cyc EXCEPT !.cancelCalls = @ + 1, !.uqFailed = TRUE]
                     /\ RaiseInUpdateQuotes(out)
                ELSE /\ cyc' = [cyc EXCEPT !.cancelCalls = @ + 1]
                     /\ pc' = "bid"
                     /\ UNCHANGED exitReason
    /\ UNCHANGED <<posvars, config, qcall, running, mid_price, quote, trades,
                   stopRequested>>

\* the exchange's side of create_order: an accepted order is open; a call
\* that fails with a non-API exception may or may not have created it
ExchangeCreate(out, created, side, price, qty) ==
    /\ out = "ok" => Cardinality(openOrders) < MaxOpenOrders
    /\ out \in {"ok", "api"} => created = (out = "ok")
    /\ created => Cardinality(openOrders) < MaxOpenOrders
    /\ openOrders' = IF created
                     THEN openOrders \cup
                          {[id |-> NewOrderId, side |-> side,
                            price |-> FormatFixed(price, config.price_decimals),
                            qty |-> qty]}
                     ELSE openOrders

\* update_quotes: `if size > 0: self.<side>_order_id = self.place_order(...)`
Place(side) ==
    LET size == IF side = "BUY" THEN quote.bid_size ELSE quote.ask_size
        price == IF side = "BUY" THEN quote.bid_price ELSE quote.ask_price
        next == IF side = "BUY" THEN "ask" ELSE "status"
    IN  /\ pc = IF side = "BUY" THEN "bid" ELSE "ask"
        /\ IF ShouldPlace(size)
           THEN /\ lastCall' = "create_order"
                /\ \E out \in CallOutcomes, created \in BOOLEAN :
                     LET r == place_order(out, NewOrderId)
                         c == [cyc EXCEPT !.placeCalls = @ + 1]
                     IN  /\ ExchangeCreate(out, created, side, price, size)
                         /\ IF r.raised
                            THEN /\ UNCHANGED <<bid_order_id, ask_order_id>>
                                 /\ cyc' = IF side = "BUY"
                                           THEN [c EXCEPT !.bid = out, !.uqFailed = TRUE]
                                           ELSE [c EXCEPT !.ask = out, !.uqFailed = TRUE]
                                 /\ RaiseInUpdateQuotes(out)
                            ELSE /\ IF side = "BUY"
                                    THEN /\ bid_order_id' = r.order_id
                                         /\ UNCHANGED ask_order_id
                                         /\ cyc' = [c EXCEPT !.bid = out]
                                    ELSE /\ ask_order_id' = r.order_id
                                         /\ UNCHANGED bid_order_id
                                         /\ cyc' = [c EXCEPT !.ask = out]
                                 /\ pc' = next
                                 /\ UNCHANGED exitReason
           ELSE /\ pc' = next
                /\ UNCHANGED <<bid_order_id, ask_order_id, openOrders, lastCall,
                               exitReason, cyc>>
        /\ UNCHANGED <<posvars, config, qcall, running, mid_price, quote, trades,
                       stopRequested>>

PlaceBid == Place("BUY")

PlaceAsk == Place("SELL")

\* update_quotes: the status line (mid, quotes, position, total PnL)
LogStatus ==
    /\ pc = "status"
    /\ cyc' = [cyc EXCEPT !.statusLogged = TRUE]
    /\ pc' = "fills"
    /\ UNCHANGED <<posvars, config, qcall, running, bid_order_id, ask_order_id,
                   mid_price, quote, openOrders, trades, lastCall, exitReason,
                   stopRequested>>

\* run: self.check_fills()
CheckFills ==
    /\ pc = "fills"
    /\ lastCall' = "get_my_trades"
    /\ \E out \in CallOutcomes :
         IF out = "ok"
         THEN /\ position' = check_fills(position, RecentOf(trades))
              /\ cyc' = [cyc EXCEPT !.fillsFetched = TRUE,
                                    !.processed = Len(RecentOf(trades))]
              /\ pc' = "sleep"
              /\ UNCHANGED exitReason
         ELSE /\ UNCHANGED <<position, cyc>>
              /\ IF CheckFillsCatches(out)
                 THEN pc' = "sleep" /\ UNCHANGED exitReason
                 ELSE pc' = "finally" /\ exitReason' = "check_fills raised"
    /\ UNCHANGED <<fills, prev, filled, config, qcall, running, bid_order_id,
                   ask_order_id, mid_price, quote, openOrders, trades,
                   stopRequested>>

\* run: time.sleep(update_interval); the cycle is over
Sleep ==
    /\ pc = "sleep"
    /\ pc' = "loop"
    /\ cyc' = NewCycle(0)
    /\ mid_price' = 0
    /\ quote' = NoQuote
    /\ UNCHANGED <<posvars, config, qcall, running, bid_order_id, ask_order_id,
                   openOrders, trades, lastCall, exitReason, stopRequested>>

\* run: the finally block
FinalCancel ==
    /\ pc = "finally"
    /\ pc' = "done"
    /\ IF FinallyCancels(exitReason)
       THEN /\ lastCall' = "cancel_all_open_orders"
            /\ \E out \in CancelOutcomes, carried_out \in BOOLEAN :
                 LET r == cancel_all_orders(out, bid_order_id, ask_order_id)
                 IN  /\ ExchangeCancel(out, carried_out)
                     /\ bid_order_id' = r.bid
                     /\ ask_order_id' = r.ask
       ELSE UNCHANGED <<lastCall, bid_order_id, ask_order_id, openOrders>>
    /\ UNCHANGED <<posvars, config, qcall, running, mid_price, quote, trades,
                   exitReason, stopRequested, cyc>>

\* mutant: the signal unwinds the cycle in progress, as KeyboardInterrupt
\* would
Stop_Interrupts ==
    /\ pc # "done"
    /\ running' = FALSE
    /\ stopRequested' = TRUE
    /\ pc' = IF pc \in {"mid", "cancel", "bid", "ask", "status", "fills", "sleep"}
             THEN "finally" ELSE pc
    /\ exitReason' = IF pc' # pc THEN "stopped" ELSE exitReason
    /\ UNCHANGED <<posvars, config, qcall, bid_order_id, ask_order_id, mid_price,
                   quote, openOrders, trades, lastCall, cyc>>

\* signal_handler -> stop(): self.running = False, at any point of run()
Stop ==
    /\ pc # "done"
    /\ running' = FALSE
    /\ stopRequested' = TRUE
    /\ UNCHANGED <<posvars, config, qcall, pc, bid_order_id, ask_order_id, mid_price,
                   quote, openOrders, trades, lastCall, exitReason, cyc>>

Next ==
    \/ PreRunFill
    \/ Run
    \/ GetAccountBalance
    \/ LoopTest
    \/ GetMidPrice
    \/ CancelAll
    \/ PlaceBid
    \/ PlaceAsk
    \/ LogStatus
    \/ CheckFills
    \/ Sleep
    \/ FinalCancel
    \/ Stop
    \/ ExchangeFill

\* The bot: construction, run() with every outcome of every exchange call,
\* stop() at any point, and the market filling open orders.
Spec == Init /\ [][Next]_vars

\* the steps of run() itself: the statements of the main thread
RunStep ==
    \/ Run
    \/ GetAccountBalance
    \/ LoopTest
    \/ GetMidPrice
    \/ CancelAll
    \/ PlaceBid
    \/ PlaceAsk
    \/ LogStatus
    \/ CheckFills
    \/ Sleep
    \/ FinalCancel

\* run() and the signal handler, on an exchange where no order is filled
LiveNext == RunStep \/ Stop

\* The bot when every exchange call and every sleep returns: run() always
\* takes its next step, and a signal may arrive at any point.
SpecLive == Init /\ [][LiveNext]_vars /\ WF_vars(RunStep)

PosNext == ApplyFill

\* ---- MarketMaker alone
\* StrategyConfig values a MarketMaker is built with
QuoteConfigs ==
    {[spread_bps |-> sp, quote_size |-> qs, max_position |-> mp,
      skew_factor |-> sk, price_decimals |-> PriceDecimals] :
        sp \in QuoteSpreads, qs \in QuoteSizes, mp \in QuoteMaxPositions,
        sk \in QuoteSkews}

QuoteInit ==
    /\ PosInit
    /\ BotFields
    /\ config \in QuoteConfigs

\* a caller calls strategy.calculate_quotes(mid_price, position)
CallQuotes ==
    \E m \in QuoteMids, inv \in (-MaxInventory)..MaxInventory :
        LET raised == calculate_quotes_raises(config, m, inv)
        IN  /\ ~qcall.called
            /\ qcall' = [called |-> TRUE, mid |-> m, inv |-> inv, raised |-> raised]
            /\ quote' = IF raised THEN quote ELSE calculate_quotes(config, m, inv)
            /\ UNCHANGED <<posvars, config, pc, running, bid_order_id,
                           ask_order_id, mid_price, openOrders, trades, lastCall,
                           exitReason, stopRequested, cyc>>

QuoteNext == CallQuotes

\* calculate_quotes on every configuration, mid price and inventory of the
\* input sets.
SpecQuote == QuoteInit /\ [][QuoteNext]_vars

\* ---- MarketMaker and Position together
\* StrategyConfig values with a position limit: the default spread and skew,
\* every quote size and every positive max_position of the input sets
InventoryConfigs ==
    {[spread_bps |-> SpreadBps, quote_size |-> qs, max_position |-> mp,
      skew_factor |-> SkewFactor, price_decimals |-> PriceDecimals] :
        qs \in QuoteSizes, mp \in QuoteMaxPositions \ {0}}

InventoryInit ==
    /\ PosInit
    /\ BotFields
    /\ config \in InventoryConfigs

\* a cycle begins: strategy.calculate_quotes(mid_price, position.quantity)
QuoteCycle ==
    /\ \E m \in MidPrices :
         /\ mid_price' = m
         /\ quote' = calculate_quotes(config, m, position.quantity)
    /\ filled' = {}
    /\ UNCHANGED <<position, fills, prev, config, qcall, pc, running,
                   bid_order_id, ask_order_id, openOrders, trades, lastCall,
                   exitReason, stopRequested, cyc>>

\* the quote of the cycle is hit on one side, once, for at most its size:
\* position.on_fill(side, qty, price)
FillQuoted(side) ==
    LET size == IF side = "BUY" THEN quote.bid_size ELSE quote.ask_size
    IN  /\ side \notin filled
        /\ Len(fills) < MaxFills
        /\ \E qty \in 1..size, price \in Prices :
             /\ position' = on_fill(position, side, qty, price)
             /\ fills' = Append(fills, Fill(side, qty, price))
             /\ prev' = position
        /\ filled' = filled \cup {side}
        /\ UNCHANGED botvars

FillBid == FillQuoted("BUY")

FillAsk == FillQuoted("SELL")

InventoryNext == QuoteCycle \/ FillBid \/ FillAsk

\* Cycles of quoting and filling: each cycle quotes for the inventory it
\* starts with, and each side of the quote is filled at most once, for at
\* most its size.
SpecInventory == InventoryInit /\ [][InventoryNext]_vars

\* A Position driven by every sequence of at most MaxFills valid fills.
SpecPosition == Init /\ [][PosNext]_vars

\* ------------------------------------------------- claims about Position
FillApplied == fills # <<>>

\* C1: every valid fill changes the signed quantity by exactly +qty (BUY)
\* or -qty (SELL), whatever the position before it, flips included.
C1_QuantityDelta ==
    FillApplied => position.quantity = prev.quantity + SignedQty(LastFill)

\* a SELL larger than the long it met: the position flipped to short
C1_Witness ==
    /\ FillApplied
    /\ LastFill.side = "SELL"
    /\ prev.quantity > 0
    /\ LastFill.qty > prev.quantity
    /\ position.quantity = prev.quantity - LastFill.qty

SameSideFill ==
    /\ FillApplied
    /\ \/ LastFill.side = "BUY" /\ prev.quantity >= 0
       \/ LastFill.side = "SELL" /\ prev.quantity <= 0

\* C2: a BUY applied at quantity >= 0 and a SELL applied at quantity <= 0
\* leave realized_pnl unchanged, after any sequence of fills.
C2_RealizedFrame ==
    SameSideFill => position.realized_pnl = prev.realized_pnl

\* a fill added to an open short after PnL had already been realized
C2_Witness ==
    /\ SameSideFill
    /\ prev.quantity < 0
    /\ prev.realized_pnl.n # 0
    /\ position.realized_pnl = prev.realized_pnl

FlipToShort ==
    FillApplied /\ LastFill.side = "SELL" /\ prev.quantity > 0
                /\ LastFill.qty > prev.quantity

FlipToLong ==
    FillApplied /\ LastFill.side = "BUY" /\ prev.quantity < 0
                /\ LastFill.qty > -prev.quantity

\* C3: a fill larger than the opposite open position realizes PnL on the
\* closed portion only (|old quantity| x price difference against the old
\* average price), leaves quantity = old -/+ qty with the opposite sign and
\* resets the average price to the fill price.
C3_Flip ==
    /\ FlipToShort =>
          /\ position.realized_pnl =
                FAdd(prev.realized_pnl,
                     FMul(FInt(prev.quantity),
                          FSub(FInt(LastFill.price), prev.avg_price)))
          /\ position.quantity = prev.quantity - LastFill.qty
          /\ position.quantity < 0
          /\ position.avg_price = FInt(LastFill.price)
    /\ FlipToLong =>
          /\ position.realized_pnl =
                FAdd(prev.realized_pnl,
                     FMul(FInt(-prev.quantity),
                          FSub(prev.avg_price, FInt(LastFill.price))))
          /\ position.quantity = prev.quantity + LastFill.qty
          /\ position.quantity > 0
          /\ position.avg_price = FInt(LastFill.price)

\* long 1 @ 100, then SELL 2 @ 90: realized -10, quantity -1, average 90
C3_Witness ==
    /\ fills = <<Fill("BUY", 1, 100), Fill("SELL", 2, 90)>>
    /\ position.realized_pnl = FInt(-10)
    /\ position.quantity = -1
    /\ position.avg_price = FInt(90)

RoundTrip ==
    /\ Len(fills) = 2
    /\ fills[1].side = "BUY"
    /\ fills[2].side = "SELL"
    /\ fills[1].qty = fills[2].qty

\* C4: from flat, BUY q @ p1 then SELL q @ p2 gives quantity 0, realized
\* PnL q x (p2 - p1), and unrealized_pnl(p) = 0 and total_pnl(p) = realized
\* PnL for every current price p.
C4_RoundTrip ==
    RoundTrip =>
        /\ position.quantity = 0
        /\ position.realized_pnl =
              FInt(fills[1].qty * (fills[2].price - fills[1].price))
        /\ \A p \in Prices :
              /\ unrealized_pnl(position, p) = FInt(0)
              /\ total_pnl(position, p) = position.realized_pnl

\* (BUY, 1, 100), (SELL, 1, 110): realized PnL 10, flat
C4_Witness ==
    /\ fills = <<Fill("BUY", 1, 100), Fill("SELL", 1, 110)>>
    /\ position.realized_pnl = FInt(10)
    /\ position.quantity = 0

\* ------------------------------------------------ claims about the bot
BothUnset == bid_order_id = None /\ ask_order_id = None

\* C5: after every cancel-all operation both tracked identifiers are unset,
\* whatever the exchange's cancel call reports.  (lastCall names the cancel
\* call from the moment cancel_all_orders has run until the next exchange
\* call is issued.)
C5_Original == lastCall = "cancel_all_open_orders" => BothUnset

\* the refresh of this cycle is over and had fetched the mid price
RefreshOver == pc = "fills" /\ cyc.midOk

SidesWanted ==
    (IF quote.bid_size > 0 THEN 1 ELSE 0) + (IF quote.ask_size > 0 THEN 1 ELSE 0)

\* no cancel-all after a placement, and never two
CancelFirst ==
    /\ cyc.cancelCalls <= 1
    /\ cyc.placeCalls > 0 => cyc.cancelCalls = 1

C7_Original ==
    RefreshOver =>
        /\ cyc.bid = "api" /\ quote.ask_size > 0 => cyc.ask # "none"
        /\ bid_order_id # None <=> (quote.bid_size > 0 /\ cyc.bid = "ok")
        /\ ask_order_id # None <=> (quote.ask_size > 0 /\ cyc.ask = "ok")

\* C8: the status line of a cycle is emitted after the fills fetched in that
\* cycle have been applied to the position.
C8_Original ==
    /\ cyc.statusLogged => cyc.fillsFetched
    /\ pc = "sleep" /\ cyc.fillsFetched =>
         position.total_trades = cyc.startTrades + cyc.processed

\* the second half of C8 alone: the fetched fills are applied
C8_FillsApplied ==
    pc = "sleep" /\ cyc.fillsFetched =>
        position.total_trades = cyc.startTrades + cyc.processed

\* C9: a failure of the price fetch or of the refresh is caught inside the
\* cycle: no exception of update_quotes leaves the loop, the rest of
\* update_quotes is skipped and nothing is called twice in the cycle, the
\* running flag is only cleared by stop(), and a cycle begins only after the
\* sleep that ended the one before.
C9_FailureContained ==
    /\ exitReason # "update_quotes raised"
    /\ cyc.uqFailed => pc \in {"fills", "sleep", "finally", "done"}
    /\ cyc.uqFailed /\ pc \in {"finally", "done"} => exitReason = "check_fills raised"
    /\ cyc.uqFailed /\ ~stopRequested => running
    /\ cyc.midCalls <= 1 /\ cyc.cancelCalls <= 1 /\ cyc.placeCalls <= 2
    /\ pc = "loop" => cyc = NewCycle(0)
    /\ pc = "mid" => cyc = NewCycle(position.total_trades)

\* the cancel-all of a refresh raised a non-API exception; the cycle went on
\* to check_fills and is now in its sleep, still running
C9_Witness ==
    /\ cyc.uqFailed
    /\ cyc.midOk
    /\ cyc.cancelCalls = 1
    /\ cyc.placeCalls = 0
    /\ pc = "sleep"
    /\ running

LoopLeft == pc = "done" /\ exitReason # "startup"

\* C10: when the loop has been left (stop request or an exception escaping
\* a cycle) and run() has terminated, the last exchange call issued is the
\* final cancel-all: it was issued, and no placement came after it.
C10_FinalCancel == LoopLeft => lastCall = "cancel_all_open_orders"

\* run() ended by an exception of check_fills, after a cycle that placed
\* orders
C10_Witness ==
    /\ LoopLeft
    /\ exitReason = "check_fills raised"
    /\ cyc.placeCalls = 2
    /\ lastCall = "cancel_all_open_orders"

\* --------------------------------------- claims about calculate_quotes
\* calculate_quotes was called with a mid price > 0 and returned `quote`
QuotedPositiveMid == qcall.called /\ ~qcall.raised /\ qcall.mid > 0

FIsNeg(x) == x.n < 0

FLess(x, y) == FIsNeg(FSub(x, y))

\* midPrice x (spreadBps / 2) / 10000
ExpectedHalfSpread == Frac(qcall.mid * config.spread_bps, 20000)

\* C11: at zero inventory, for every mid price > 0 and every configuration,
\* bid = mid - halfSpread and ask = mid + halfSpread (the skew is 0), with
\* halfSpread = midPrice x (spreadBps / 2) / 10000.
C11_Symmetry ==
    QuotedPositiveMid /\ qcall.inv = 0 =>
        /\ quote.bid_price = FSub(FInt(qcall.mid), ExpectedHalfSpread)
        /\ quote.ask_price = FAdd(FInt(qcall.mid), ExpectedHalfSpread)
        /\ FSub(FInt(qcall.mid), quote.bid_price) =
             FSub(quote.ask_price, FInt(qcall.mid))

\* zero inventory, skew factor 1, a spread > 0: the quotes straddle the mid
C11_Witness ==
    /\ QuotedPositiveMid
    /\ qcall.inv = 0
    /\ config.spread_bps = 10
    /\ config.max_position = 10
    /\ config.skew_factor = FInt(1)
    /\ FLess(quote.bid_price, FInt(qcall.mid))
    /\ FLess(FInt(qcall.mid), quote.ask_price)

AtLongLimit == QuotedPositiveMid /\ qcall.inv = config.max_position

AtShortLimit == QuotedPositiveMid /\ qcall.inv = -config.max_position

\* C12 as claimed: at inventory = maxPosition the bid size is 0 and the ask
\* size is min(quoteSize, 2 x maxPosition); at -maxPosition the ask size is
\* 0; and the side opposite to the limit quotes the full quoteSize.
C12_Original ==
    /\ AtLongLimit =>
         /\ quote.bid_size = 0
         /\ quote.ask_size = Min(config.quote_size, 2 * config.max_position)
         /\ quote.ask_size = config.quote_size
    /\ AtShortLimit =>
         /\ quote.ask_size = 0
         /\ quote.bid_size = Min(config.quote_size, 2 * config.max_position)
         /\ quote.bid_size = config.quote_size

\* C12 amended: at inventory = maxPosition the bid size is 0 and the ask size
\* is min(quoteSize, 2 x maxPosition); at -maxPosition the ask size is 0 and
\* the bid size is min(quoteSize, 2 x maxPosition); the side opposite to the
\* limit quotes the full quoteSize exactly when quoteSize <= 2 x maxPosition.
C12_Boundary ==
    /\ AtLongLimit =>
         /\ quote.bid_size = 0
         /\ quote.ask_size = Min(config.quote_size, 2 * config.max_position)
         /\ quote.ask_size = config.quote_size
              <=> config.quote_size <= 2 * config.max_position
    /\ AtShortLimit =>
         /\ quote.ask_size = 0
         /\ quote.bid_size = Min(config.quote_size, 2 * config.max_position)
         /\ quote.bid_size = config.quote_size
              <=> config.quote_size <= 2 * config.max_position

\* at the long limit with quoteSize 3 > 2 x maxPosition = 2: the ask is capped
C12_Witness ==
    /\ AtLongLimit
    /\ config.max_position = 1
    /\ config.quote_size = 3
    /\ quote.bid_size = 0
    /\ quote.ask_size = 2

SkewedConfig ==
    /\ config.spread_bps > 0
    /\ config.max_position > 0
    /\ config.skew_factor.n > 0

ZeroInventoryQuote == calculate_quotes(config, qcall.mid, 0)

\* C13: with spreadBps > 0, maxPosition > 0 and skewFactor > 0, a long
\* inventory gives a bid and an ask both strictly lower than the quotes at
\* zero inventory for the same mid price, a short inventory both strictly
\* higher, and the bid and the ask move by the same amount.
C13_SkewDirection ==
    QuotedPositiveMid /\ SkewedConfig =>
        /\ qcall.inv > 0 =>
             /\ FLess(quote.bid_price, ZeroInventoryQuote.bid_price)
             /\ FLess(quote.ask_price, ZeroInventoryQuote.ask_price)
        /\ qcall.inv < 0 =>
             /\ FLess(ZeroInventoryQuote.bid_price, quote.bid_price)
             /\ FLess(ZeroInventoryQuote.ask_price, quote.ask_price)
        /\ FSub(quote.bid_price, ZeroInventoryQuote.bid_price) =
             FSub(quote.ask_price, ZeroInventoryQuote.ask_price)

\* a short inventory beyond the position limit: both quotes above the
\* zero-inventory ones
C13_Witness ==
    /\ QuotedPositiveMid
    /\ SkewedConfig
    /\ qcall.inv < -config.max_position
    /\ FLess(ZeroInventoryQuote.bid_price, quote.bid_price)
    /\ FLess(ZeroInventoryQuote.ask_price, quote.ask_price)

\* C14: a call with midPrice <= 0 signals an invalid-argument error instead
\* of returning a quote.
C14_Original == qcall.called /\ qcall.mid <= 0 => qcall.raised

\* spreadBps 10, quoteSize 0.001, maxPosition 0.01, skewFactor 0.5, in lots
\* of 0.001, and midPrice 50000
EndToEndCall ==
    /\ qcall.called
    /\ ~qcall.raised
    /\ qcall.mid = 50000
    /\ config.spread_bps = 10
    /\ config.quote_size = 1
    /\ config.max_position = 10
    /\ config.skew_factor = Frac(1, 2)

\* C15: with midPrice 50000, spreadBps 10, quoteSize 0.001, maxPosition 0.01
\* and skewFactor 0.5, the quote is bid 49975, ask 50025, sizes 0.001 and
\* 0.001 at inventory 0, and bid 49962.5, ask 50012.5, sizes 0 and 0.001 at
\* inventory 0.01.
C15_EndToEnd ==
    /\ EndToEndCall /\ qcall.inv = 0 =>
         quote = [bid_price |-> FInt(49975), ask_price |-> FInt(50025),
                  bid_size |-> 1, ask_size |-> 1]
    /\ EndToEndCall /\ qcall.inv = 10 =>
         quote = [bid_price |-> Frac(99925, 2), ask_price |-> Frac(100025, 2),
                  bid_size |-> 0, ask_size |-> 1]

\* the call at the long limit
C15_Witness ==
    /\ EndToEndCall
    /\ qcall.inv = 10
    /\ quote.bid_price = Frac(99925, 2)
    /\ quote.bid_size = 0

\* the claim's configurations: spreadBps, quoteSize, maxPosition >= 0 and
\* skewFactor in [0, 1]
NominalConfig ==
    /\ config.spread_bps >= 0
    /\ config.quote_size >= 0
    /\ config.max_position >= 0
    /\ config.skew_factor.n >= 0
    /\ config.skew_factor.n <= config.skew_factor.d

\* C16 as claimed: every quote for midPrice > 0 has prices and sizes >= 0,
\* for every inventory and every nominal configuration.
C16_Original ==
    QuotedPositiveMid /\ NominalConfig =>
        /\ ~FIsNeg(quote.bid_price)
        /\ ~FIsNeg(quote.ask_price)
        /\ quote.bid_size >= 0
        /\ quote.ask_size >= 0

CoverFill == FillApplied /\ LastFill.side = "BUY" /\ prev.quantity < 0

CloseFill == FillApplied /\ LastFill.side = "SELL" /\ prev.quantity > 0

\* C17: a BUY against a short adds covered x (avgPrice - fillPrice) to the
\* realized PnL and a SELL against a long adds closed x (fillPrice -
\* avgPrice), with covered/closed = min(fillQty, |quantity before|) and the
\* average price held before the fill; a fill smaller than the open
\* position leaves the average price unchanged.
C17_ReduceRealizes ==
    /\ CoverFill =>
          position.realized_pnl =
              FAdd(prev.realized_pnl,
                   FMul(FInt(Min(LastFill.qty, Abs(prev.quantity))),
                        FSub(prev.avg_price, FInt(LastFill.price))))
    /\ CloseFill =>
          position.realized_pnl =
              FAdd(prev.realized_pnl,
                   FMul(FInt(Min(LastFill.qty, Abs(prev.quantity))),
                        FSub(FInt(LastFill.price), prev.avg_price)))
    /\ (CoverFill \/ CloseFill) /\ LastFill.qty < Abs(prev.quantity) =>
          position.avg_price = prev.avg_price

\* short 2 @ 100 partly covered by BUY 1 @ 90: realized +10, average still
\* 100
C17_Witness ==
    /\ fills = <<Fill("SELL", 2, 100), Fill("BUY", 1, 90)>>
    /\ position.realized_pnl = FInt(10)
    /\ position.quantity = -1
    /\ position.avg_price = FInt(100)

\* (|q| x avgPrice + fillQty x fillPrice) / (|q| + fillQty) over the
\* position before the fill
WeightedAverage ==
    FDivInt(FAdd(FMul(FInt(Abs(prev.quantity)), prev.avg_price),
                 FInt(LastFill.qty * LastFill.price)),
            Abs(prev.quantity) + LastFill.qty)

\* C18: a BUY at quantity >= 0 and a SELL at quantity <= 0 set the average
\* price to the notional-weighted average of the position and the fill; on
\* a flat position that is the fill price, whatever average price earlier
\* fills left behind.
C18_WeightedAverage ==
    SameSideFill =>
        /\ position.avg_price = WeightedAverage
        /\ prev.quantity = 0 => position.avg_price = FInt(LastFill.price)

\* a long closed to flat leaves its average 100 behind; the next BUY, at 90,
\* opens a long at average 90
C18_Witness ==
    /\ fills = <<Fill("BUY", 1, 100), Fill("SELL", 1, 110), Fill("BUY", 1, 90)>>
    /\ prev.quantity = 0
    /\ prev.avg_price = FInt(100)
    /\ position.avg_price = FInt(90)

Inverted(side) == IF side = "BUY" THEN "SELL" ELSE "BUY"

\* the position after applying fs, every side inverted, to a new Position
RECURSIVE MirrorReplay(_)
MirrorReplay(fs) ==
    IF fs = <<>> THEN NewPosition
    ELSE LET f == fs[Len(fs)]
         IN  on_fill(MirrorReplay(SubSeq(fs, 1, Len(fs) - 1)),
                     Inverted(f.side), f.qty, f.price)

\* C19: after every sequence of valid fills from the flat initial position,
\* the same sequence with every side inverted gives the negated quantity,
\* the same average price whenever the quantity is not 0, the negated
\* realized PnL and the same fill count.
C19_Mirror ==
    LET mirror == MirrorReplay(fills)
    IN  /\ mirror.quantity = -position.quantity
        /\ position.quantity # 0 => mirror.avg_price = position.avg_price
        /\ mirror.realized_pnl = FNeg(position.realized_pnl)
        /\ mirror.total_trades = position.total_trades

\* an add, then a flip: long 2 @ 95 sold 3 @ 110 is short 1 @ 110 with +30
\* realized; the mirror is long 1 @ 110 with -30 realized
C19_Witness ==
    /\ fills = <<Fill("BUY", 1, 100), Fill("BUY", 1, 90), Fill("SELL", 2, 110)>>
    /\ position.realized_pnl = FInt(30)
    /\ MirrorReplay(fills).realized_pnl = FInt(-30)
    /\ MirrorReplay(fills).total_trades = 3

\* C20: an unexpected exception raised in any step of a cycle, the fetching
\* and processing of recent fills included, is logged and the loop stays
\* running and goes on to the next cycle: no exception of a cycle ends the
\* loop.
C20_Original ==
    exitReason \notin {"update_quotes raised", "check_fills raised"}

\* run() is inside a cycle: between the loop test and the end of the sleep
InCycle == pc \in {"mid", "cancel", "bid", "ask", "status", "fills", "sleep"}

\* stop() is being called
StopCalled == stopRequested' /\ ~running' /\ (running \/ ~stopRequested)

\* C21: a stop request never interrupts the cycle in progress: the call of
\* stop() moves run() nowhere and touches nothing but the running flag, a
\* cycle in progress goes on to its next step whether or not the flag has
\* been cleared, and the loop is left on the request only by the test of
\* the flag at the top of a cycle.
C21_Cooperative ==
    [][/\ StopCalled =>
            /\ pc' = pc
            /\ UNCHANGED <<posvars, bid_order_id, ask_order_id, mid_price,
                           quote, openOrders, trades, lastCall, exitReason, cyc>>
       /\ exitReason' = "stopped" /\ exitReason # "stopped" =>
            pc = "loop" /\ ~running /\ cyc = NewCycle(0)
       /\ InCycle /\ ~running /\ pc' # pc =>
            /\ exitReason' # "stopped"
            /\ pc = "cancel" => pc' \in {"bid", "fills", "finally"}
            /\ pc = "status" => pc' = "fills"
            /\ pc = "fills" => pc' \in {"sleep", "finally"}
            /\ pc = "sleep" => pc' = "loop"]_vars

\* stop() was called before the first call of a cycle; the cycle still
\* fetched the price, cancelled, placed both sides, logged, fetched the
\* fills and is in its sleep
C21_Witness ==
    /\ cyc.stopPending
    /\ ~running
    /\ pc = "sleep"
    /\ cyc.midOk
    /\ cyc.cancelCalls = 1
    /\ cyc.placeCalls = 2
    /\ cyc.statusLogged
    /\ cyc.fillsFetched

\* C22: every stop signal delivered once the bot object exists, at any
\* interleaving with run(), leads the loop to STOPPED eventually: no stop
\* request is lost.
C22_Original == stopRequested ~> pc = "done"

BidsOpen == {o \in openOrders : o.side = "BUY"}

AsksOpen == {o \in openOrders : o.side = "SELL"}

\* C23: whatever the outcomes of the exchange calls, at most one bid order
\* and one ask order of the bot are outstanding on the exchange at any
\* time, and every outstanding order is the one whose identifier is tracked
\* for its side.
C23_Original ==
    /\ Cardinality(BidsOpen) <= 1
    /\ Cardinality(AsksOpen) <= 1
    /\ \A o \in BidsOpen : o.id = bid_order_id
    /\ \A o \in AsksOpen : o.id = ask_order_id

\* the net cash flow of fs: qty x price received for every SELL, paid for
\* every BUY
RECURSIVE CashFlow(_)
CashFlow(fs) ==
    IF fs = <<>> THEN 0
    ELSE LET f == fs[Len(fs)]
         IN  CashFlow(SubSeq(fs, 1, Len(fs) - 1))
               + (IF f.side = "SELL" THEN f.qty * f.price ELSE -(f.qty * f.price))

\* C24: after any sequence of valid fills from the flat initial position and
\* for every current price p, total_pnl(p) = (sum of qty x price over SELL
\* fills) - (sum of qty x price over BUY fills) + quantity x p.
C24_Conservation ==
    \A p \in Prices :
        total_pnl(position, p) = FInt(CashFlow(fills) + position.quantity * p)

\* an opening fill, a partial close and a flip: long 2 @ 100, SELL 1 @ 110,
\* SELL 2 @ 110 leaves short 1 @ 110 with realized 20; at price 100 the
\* total is 20 + 10 = 130 - 100
C24_Witness ==
    /\ fills = <<Fill("BUY", 2, 100), Fill("SELL", 1, 110), Fill("SELL", 2, 110)>>
    /\ position.quantity = -1
    /\ position.realized_pnl = FInt(20)
    /\ total_pnl(position, 100) = FInt(30)
    /\ CashFlow(fills) = 130

\* C25: starting flat with maxPosition > 0, when the fills of every cycle
\* are at most one BUY of at most the bid size and at most one SELL of at
\* most the ask size that calculate_quotes returned for the inventory at
\* the start of the cycle, |quantity| <= maxPosition in every reachable
\* state.
C25_InventoryBound == Abs(position.quantity) <= config.max_position

\* the largest swing the sizes allow: from the long limit, where nothing is
\* bid, one SELL of 2 x maxPosition takes the inventory to the short limit
C25_Witness ==
    /\ fills # <<>>
    /\ filled = {"SELL"}
    /\ prev.quantity = config.max_position
    /\ LastFill.qty = 2 * config.max_position
    /\ position.quantity = -config.max_position
    /\ quote.bid_size = 0

\* the price fetch of the current cycle failed
FetchFailed == cyc.midCalls = 1 /\ ~cyc.midOk

OrderCalls == {"cancel_all_open_orders", "create_order"}

\* C26: in a cycle where fetching the mid price fails, no cancel-all and no
\* placement call is issued and both tracked identifiers are unchanged: the
\* failed fetch goes straight to the fill check, and no step of the rest of
\* the cycle calls the order endpoints, changes an identifier or removes an
\* order other than by the market filling it.
C26_FetchFailureFrame ==
    [][/\ pc = "mid" /\ pc' # "mid" /\ ~cyc'.midOk =>
            /\ pc' = "fills"
            /\ lastCall' = "get_orderbook_ticker"
            /\ cyc'.cancelCalls = 0 /\ cyc'.placeCalls = 0
            /\ UNCHANGED <<bid_order_id, ask_order_id, openOrders>>
       /\ FetchFailed /\ pc \in {"fills", "sleep"} =>
            /\ lastCall' \notin OrderCalls
            /\ cyc.cancelCalls = 0 /\ cyc.placeCalls = 0
            /\ UNCHANGED <<bid_order_id, ask_order_id>>
            /\ openOrders' # openOrders =>
                 Len(trades') = Len(trades) + 1 /\ openOrders' \subseteq openOrders]_vars

\* the fetch failed in a cycle that began with both sides working: the two
\* orders of the previous refresh are still open and tracked in the sleep
C26_Witness ==
    /\ FetchFailed
    /\ pc = "sleep"
    /\ running
    /\ bid_order_id # None
    /\ ask_order_id # None
    /\ {bid_order_id, ask_order_id} = OrderIds
    /\ cyc.cancelCalls = 0
    /\ cyc.placeCalls = 0

====
